---------------------------- MODULE Spec2Model ----------------------------
(***************************************************************************)
(* A model of the crawler in src/index.js (the module that starts at line  *)
(* 520: run, normalizeUrlSet, normalizeUrl, normalizeExternalUrl,          *)
(* saveState, save, isSameDomain).                                         *)
(* and of the report loop of src/print-broken-links.ts.                    *)
(*                                                                         *)
(* Strings that name URLs are records of the components the WHATWG URL     *)
(* class exposes.  kind says how the string is spelled:                    *)
(*   "url"    the serialisation URL.toString() produces,                   *)
(*   "raw"    a parseable string that is not its own serialisation         *)
(*            (for instance https://ex.com typed without the final /),     *)
(*   "bad"    a string new URL() rejects with a TypeError,                 *)
(*   "empty"  the empty string (an <a> without href),                      *)
(*   "rel"    a relative reference, found only in href attributes.         *)
(***************************************************************************)
EXTENDS Integers, Sequences, FiniteSets, TLC

VARIABLES
    \* ---- the process (run, src/index.js 605-869)
    phase,            \* "boot" | "loop" | "fetch" | "done" | "crashed"
    cfg,              \* the command line of the current process
    visitedUrls, pendingUrls, externalUrls, unreachableUrls,
    metaState,
    visitingUrl,      \* the URL popped at line 713
    attempts,         \* the outcomes of the calls of page.goto(visitingUrl) so far
    waits,            \* the delays (ms) retryAsPromised has slept in this iteration
    navigating,       \* the calls of page.goto (line 750) that have not settled
    slept,            \* ms the loop has awaited since the last call settled
    \* ---- the writer (saveState/save, 915-939) and the file system
    nextSaveState, isSaving, inflight, disk,
    \* ---- history kept for the properties
    loaded,           \* what the boot read from the state and meta files
    last,             \* what the last finished iteration did
    iterations,       \* iterations of the crawl loop begun, over all the processes
    resumed,          \* the process runs on what an earlier process left
    saves,            \* writer: the saveState calls and the writes of each file
    \* ---- the normaliser applied twice (normalizeUrl, 881-896)
    nIn, nHost, nOnce, nTwice, nStep,
    \* ---- the classifier applied to one URL (isExternalUrl, 649-661)
    cArgv, cUrl, cExternal, cStep,
    \* ---- the report on one page (print-broken-links.ts, 35-63)
    crawlResult, aAnchors, aLists, aStep,
    \* ---- normalizeUrlSet applied to one loaded Set (871-879)
    rIn, rHost, rOut, rStep

vars == <<phase, cfg, visitedUrls, pendingUrls, externalUrls, unreachableUrls,
          metaState, visitingUrl, attempts, waits, navigating, slept,
          nextSaveState, isSaving,
          inflight,
          disk, loaded, last, iterations, resumed, saves,
          nIn, nHost, nOnce, nTwice, nStep, cArgv, cUrl, cExternal, cStep,
          crawlResult, aAnchors, aLists, aStep, rIn, rHost, rOut, rStep>>

-----------------------------------------------------------------------------
(* URL strings *)

Url(protocol, hostname, port, pathname, hash) ==
    [kind |-> "url", protocol |-> protocol, hostname |-> hostname,
     port |-> port, pathname |-> pathname, hash |-> hash]

Raw(u) == [u EXCEPT !.kind = "raw"]

BadStr == [kind |-> "bad", protocol |-> "", hostname |-> "", port |-> "",
           pathname |-> "", hash |-> ""]

EmptyStr == [kind |-> "empty", protocol |-> "", hostname |-> "", port |-> "",
             pathname |-> "", hash |-> ""]

Rel(pathname, hash) ==
    [kind |-> "rel", protocol |-> "", hostname |-> "", port |-> "",
     pathname |-> pathname, hash |-> hash]

\* new URL(s) succeeds: an absolute, parseable string
Parseable(s) == s.kind \in {"url", "raw"}

\* the scheme's default port, which the URL class never stores
DefaultPort(protocol) == IF protocol = "https:" THEN "443" ELSE "80"

\* new URL(s): the parsed components (s parseable)
ParseUrl(s) ==
    [s EXCEPT !.kind = "url",
              !.port = IF s.port = DefaultPort(s.protocol) THEN "" ELSE s.port]

\* url.protocol = 'https:' on an http URL: the port is dropped when it is the
\* new scheme's default
SetProtocolHttps(u) ==
    [u EXCEPT !.protocol = "https:",
              !.port = IF u.port = DefaultPort("https:") THEN "" ELSE u.port]

\* url.host = h, h a host string "hostname" or "hostname:port": the port is
\* replaced only when h carries one
SetHost(u, h) ==
    [u EXCEPT !.hostname = h.hostname,
              !.port = IF h.port = "" THEN u.port
                       ELSE IF h.port = DefaultPort(u.protocol) THEN ""
                       ELSE h.port]

\* (new URL(s)).host
HostOf(s) == LET u == ParseUrl(s) IN [hostname |-> u.hostname, port |-> u.port]

\* url.origin with the scheme already aliased by the caller
OriginOf(u) == <<u.protocol, u.hostname, u.port>>

\* normalizeUrl without url.hash = ''
normalizeUrlKeepHash(urlStr, canonicalHost) ==
    LET url == ParseUrl(urlStr)
        u1  == IF url.protocol = "http:" /\ url.hostname # "localhost"
               THEN SetProtocolHttps(url) ELSE url
    IN  SetHost(u1, canonicalHost)

normalizeUrl(urlStr, canonicalHost) ==
    LET url == ParseUrl(urlStr)
        u1  == IF url.protocol = "http:" /\ url.hostname # "localhost"
               THEN SetProtocolHttps(url) ELSE url
        u2  == SetHost(u1, canonicalHost)
    IN  [u2 EXCEPT !.hash = ""]

normalizeExternalUrl(urlStr) == [ParseUrl(urlStr) EXCEPT !.hash = ""]

\* slugify((new URL(initialUrl)).host) for the hosts of the model: dots become
\* dashes, every other non-word character (the colon of a port) is dropped
slugify(host) ==
    LET name == CASE host.hostname = "ex.com"     -> "ex-com"
                  [] host.hostname = "ex-com"     -> "ex-com"
                  [] host.hostname = "www.ex.com" -> "www-ex-com"
                  [] host.hostname = "other.com"  -> "other-com"
                  [] OTHER                        -> host.hostname
    IN  <<name, host.port>>

-----------------------------------------------------------------------------
(* JavaScript Sets: insertion-ordered, modelled as duplicate-free sequences *)

Range(s) == {s[i] : i \in 1..Len(s)}

Has(s, x) == x \in Range(s)

SetAdd(s, x) == IF Has(s, x) THEN s ELSE Append(s, x)

SetDelete(s, x) == SelectSeq(s, LAMBDA y : y # x)

RECURSIVE AddAll(_, _)
AddAll(s, xs) ==
    IF xs = <<>> THEN s ELSE AddAll(SetAdd(s, Head(xs)), Tail(xs))

\* the loop that deletes the first URL only
DeleteOnlyFirst(s, xs) == IF xs = <<>> THEN s ELSE SetDelete(s, Head(xs))

RECURSIVE DeleteAll(_, _)
DeleteAll(s, xs) ==
    IF xs = <<>> THEN s ELSE DeleteAll(SetDelete(s, Head(xs)), Tail(xs))

\* lodash uniq: the first occurrence of every element, in order
uniq(xs) == AddAll(<<>>, xs)

\* for (const url of urlSet) of normalizeUrlSet, from position i on: a Set
\* iterator also visits what is appended during the iteration, so a replaced
\* URL is normalised again when the iterator reaches it
RECURSIVE normalizeUrlSetFrom(_, _, _)
normalizeUrlSetFrom(urlSet, i, canonicalHost) ==
    IF i > Len(urlSet) THEN urlSet
    ELSE LET url        == urlSet[i]
             normalized == normalizeUrl(url, canonicalHost)
         IN  IF normalized # url
             THEN normalizeUrlSetFrom(SetAdd(SetDelete(urlSet, url), normalized),
                                      i, canonicalHost)
             ELSE normalizeUrlSetFrom(urlSet, i + 1, canonicalHost)

normalizeUrlSet(urlSet, canonicalHost) ==
    normalizeUrlSetFrom(urlSet, 1, canonicalHost)

-----------------------------------------------------------------------------
(* Classification *)

\* url.protocol = 'https:' guarded by url.protocol === 'http:' (944-947, 953-956)
AliasHttp(u) == IF u.protocol = "http:" THEN SetProtocolHttps(u) ELSE u

\* the loop of isSameDomain over validDomains from position i; an unparseable
\* configured domain ends the search with false
RECURSIVE sameDomainFrom(_, _, _)
sameDomainFrom(validDomains, i, urlB) ==
    IF i > Len(validDomains) THEN FALSE
    ELSE IF ~Parseable(validDomains[i]) THEN FALSE
    ELSE IF OriginOf(AliasHttp(ParseUrl(validDomains[i]))) = OriginOf(urlB) THEN TRUE
    ELSE sameDomainFrom(validDomains, i + 1, urlB)

\* rawUrlB parseable (new URL(rawUrlB) is outside the try)
isSameDomain(validDomains, rawUrlB) ==
    sameDomainFrom(validDomains, 1, AliasHttp(ParseUrl(rawUrlB)))

\* micromatch on the patterns of the model: a literal path, or "/**"
Matches(pathname, pattern) == pattern = "/**" \/ pattern = pathname

micromatchAny(pathname, patterns) ==
    \E i \in 1..Len(patterns) : Matches(pathname, patterns[i])

micromatchAll(pathname, patterns) ==
    \A i \in 1..Len(patterns) : Matches(pathname, patterns[i])

\* urlStr parseable; on any other string new URL(urlStr) throws (line 650)
isExternalUrl(c, urlStr) ==
    IF ~isSameDomain(c.validDomains, urlStr) THEN TRUE
    ELSE IF micromatchAny(ParseUrl(urlStr).pathname, c.externalPatterns) THEN TRUE
    ELSE Len(c.internalPatterns) > 0
         /\ ~micromatchAll(ParseUrl(urlStr).pathname, c.internalPatterns)

\* anchor.href (line 786): the attribute resolved against the document's URL;
\* an attribute that does not parse is returned as written
hrefOf(attr, base) ==
    CASE attr.kind = "rel" ->
           [ParseUrl(base) EXCEPT !.pathname = attr.pathname, !.hash = attr.hash]
      [] attr.kind \in {"url", "raw"} -> ParseUrl(attr)
      [] OTHER -> attr

hrefsOf(dom, base) == [i \in 1..Len(dom) |-> hrefOf(dom[i], base)]

-----------------------------------------------------------------------------
(* The bounded world: command lines, the site, the file system *)

MaxIterations == 3    \* iterations of the crawl loop, over all the processes

HttpsUrl(hostname, pathname) == Url("https:", hostname, "", pathname, "")

SeedEx   == HttpsUrl("ex.com", "/")
SeedDash == HttpsUrl("ex-com", "/")     \* another host with the same slug
AliasWww == Raw(HttpsUrl("www.ex.com", "/"))   \* typed https://www.ex.com
AliasEx  == Raw(HttpsUrl("ex.com", "/"))       \* typed https://ex.com

CommandLine(initialUrl, domainAlias, collectMeta, checkExternals, excludePath) ==
    [initialUrl       |-> initialUrl,
     validDomains     |-> <<domainAlias, initialUrl>>,     \* lines 642-647
     collectMeta      |-> collectMeta,
     checkExternals   |-> checkExternals,
     externalPatterns |-> excludePath,
     internalPatterns |-> <<>>]

\* the flags of a command line
Flags == [collectMeta : BOOLEAN, checkExternals : BOOLEAN]

\* the crawler is started on https://ex.com/ with the alias www.ex.com, or on
\* https://ex-com/ with the alias ex.com
ConfigsWith(flags) ==
    {CommandLine(SeedEx, AliasWww, flags.collectMeta, flags.checkExternals, <<>>),
     CommandLine(SeedDash, AliasEx, flags.collectMeta, flags.checkExternals, <<>>)}

Configs == UNION {ConfigsWith(flags) : flags \in Flags}

\* the first process is started on https://ex.com/; the flags stay the same
\* when the crawler is started again
FirstConfigs ==
    {CommandLine(SeedEx, AliasWww, f.collectMeta, f.checkExternals, <<>>) :
        f \in Flags}

StartsWith(flags, again) ==
    IF again THEN ConfigsWith(flags)
    ELSE {CommandLine(SeedEx, AliasWww, flags.collectMeta, flags.checkExternals,
                      <<>>)}

\* the documents the site may serve: the href attributes of their <a> elements
Pages ==
    << <<>>,
       <<HttpsUrl("ex.com", "/a"), HttpsUrl("other.com", "/x"), Rel("/b", "#frag")>>,
       <<BadStr, Rel("/a", "")>>,
       <<Url("http:", "www.ex.com", "", "/a", "#frag"), EmptyStr,
         HttpsUrl("ex.com", "/a"), Rel("/", "")>>,
       <<Rel("/a", "")>> >>

\* the documents found at a path
PagesAt(pathname) ==
    CASE pathname = "/"  -> {2}
      [] pathname = "/a" -> {3, 5}
      [] pathname = "/b" -> {4}
      [] OTHER           -> {1}

\* where a navigation may end besides the requested URL
RedirectPool == {HttpsUrl("ex.com", "/b"), HttpsUrl("www.ex.com", "/a")}

\* what one call of page.goto(v) may produce; status 0: page.goto rejected.
\* A redirected navigation reports the requested URL as its chain; a
\* navigation replaced by the page itself (a client-side redirect) reports a
\* final URL and no chain.
Responses(v) ==
    {[status |-> 0, chain |-> <<>>, final |-> v, page |-> 1],
     [status |-> 500, chain |-> <<>>, final |-> v, page |-> 1],
     [status |-> 404, chain |-> <<>>, final |-> v, page |-> 1],
     [status |-> 404, chain |-> <<v>>, final |-> HttpsUrl("ex.com", "/b"), page |-> 1]}
    \cup {[status |-> 200, chain |-> <<>>, final |-> v, page |-> pg] :
            pg \in PagesAt(v.pathname)}
    \cup UNION {{[status |-> 200, chain |-> <<v>>, final |-> f, page |-> pg] :
                    pg \in PagesAt(f.pathname)} : f \in RedirectPool}
    \cup {[status |-> 200, chain |-> <<>>, final |-> HttpsUrl("ex.com", "/b"),
           page |-> pg] : pg \in PagesAt("/b")}

canonicalHostOf(c) == HostOf(c.initialUrl)                      \* line 618
stateFileOf(c) == <<slugify(canonicalHostOf(c)), "json">>       \* line 619
metaFileOf(c)  == <<slugify(canonicalHostOf(c)), "meta.json">>  \* line 620

Files == {stateFileOf(c) : c \in Configs} \cup {metaFileOf(c) : c \in Configs}

EmptyMeta == [k \in {} |-> 0]

NoIteration == [status |-> -1, url |-> EmptyStr, calls |-> 0, chain |-> <<>>,
                final |-> EmptyStr, page |-> 1, threw |-> FALSE]

NoLoad == [visitedUrls |-> <<>>, pendingUrls |-> <<>>, externalUrls |-> <<>>,
           unreachableUrls |-> <<>>, metaKeys |-> {}]

-----------------------------------------------------------------------------
(* The coalescing writer: saveState and save, lines 915-939 *)

\* the object handed to saveState by run: it refers to the live Sets (859) or
\* is the live metaState object (830), so its JSON is taken when save runs
LiveRef == [live |-> TRUE, val |-> 0]

\* a plain value handed to saveState
Value(n) == [live |-> FALSE, val |-> n]

\* JSON.stringify(state, transformJson, 2) at line 935
Stringify(obj, liveContent) == IF obj.live THEN liveContent ELSE obj.val

Writer == [next |-> nextSaveState, saving |-> isSaving, inflight |-> inflight]

\* save without the test of isSaving
saveNoGuard(w, filename, liveContent) ==
    IF w.next[filename] = <<>> THEN w
    ELSE [next     |-> [w.next EXCEPT ![filename] = <<>>],
          saving   |-> [w.saving EXCEPT ![filename] = TRUE],
          inflight |-> [w.inflight EXCEPT ![filename] =
                           Append(@, Stringify(w.next[filename][1], liveContent))]]

save(w, filename, liveContent) ==
    IF w.saving[filename] \/ w.next[filename] = <<>> THEN w
    ELSE [next     |-> [w.next EXCEPT ![filename] = <<>>],
          saving   |-> [w.saving EXCEPT ![filename] = TRUE],
          inflight |-> [w.inflight EXCEPT ![filename] =
                           Append(@, Stringify(w.next[filename][1], liveContent))]]

\* saveState that keeps a value already waiting in the slot
saveStateKeepSlot(w, filename, obj, liveContent) ==
    save([w EXCEPT !.next[filename] = IF @ = <<>> THEN <<obj>> ELSE @],
         filename, liveContent)

saveState(w, filename, obj, liveContent) ==
    save([w EXCEPT !.next[filename] = <<obj>>], filename, liveContent)

\* the four Sets as transformJson writes them
Snapshot(visited, pending, external, unreachable) ==
    [visitedUrls |-> visited, pendingUrls |-> pending,
     externalUrls |-> external, unreachableUrls |-> unreachable]

\* what a write of filename that starts now serialises
LiveContent(filename) ==
    IF filename[2] = "json"
    THEN Snapshot(visitedUrls, pendingUrls, externalUrls, unreachableUrls)
    ELSE metaState

\* a sequence without its i-th element
RemoveAt(s, i) == SubSeq(s, 1, i - 1) \o SubSeq(s, i + 1, Len(s))

SetWriter(w) ==
    /\ nextSaveState' = w.next
    /\ isSaving' = w.saving
    /\ inflight' = w.inflight

-----------------------------------------------------------------------------
(* One iteration of the crawl loop: the pieces of lines 709-863 *)

RetryMax == 3

\* the anchor loop without the test of visitedUrls
RECURSIVE anchorLoopNoVisitedTest(_, _, _, _, _, _)
anchorLoopNoVisitedTest(c, anchors, i, visited, pending, external) ==
    IF i > Len(anchors)
    THEN [pendingUrls |-> pending, externalUrls |-> external, threw |-> FALSE]
    ELSE LET url == anchors[i] IN
         IF url.kind = "empty"
         THEN anchorLoopNoVisitedTest(c, anchors, i + 1, visited, pending, external)
         ELSE IF ~Parseable(url)
         THEN [pendingUrls |-> pending, externalUrls |-> external, threw |-> TRUE]
         ELSE LET isExternal == isExternalUrl(c, url)
                  normalized == IF isExternal THEN normalizeExternalUrl(url)
                                ELSE normalizeUrl(url, canonicalHostOf(c))
                  external2  == IF isExternal THEN SetAdd(external, url)
                                ELSE external
                  pending2   == IF /\ (~isExternal \/ c.checkExternals)
                                   /\ ~Has(pending, normalized)
                                THEN SetAdd(pending, normalized)
                                ELSE pending
              IN  anchorLoopNoVisitedTest(c, anchors, i + 1, visited, pending2,
                                          external2)

\* the anchor loop, lines 833-851, from anchor i on; threw: new URL(url) of
\* isExternalUrl raised, which nothing inside the loop catches
RECURSIVE anchorLoop(_, _, _, _, _, _)
anchorLoop(c, anchors, i, visited, pending, external) ==
    IF i > Len(anchors)
    THEN [pendingUrls |-> pending, externalUrls |-> external, threw |-> FALSE]
    ELSE LET url == anchors[i] IN
         IF url.kind = "empty"
         THEN anchorLoop(c, anchors, i + 1, visited, pending, external)
         ELSE IF ~Parseable(url)
         THEN [pendingUrls |-> pending, externalUrls |-> external, threw |-> TRUE]
         ELSE LET isExternal == isExternalUrl(c, url)
                  normalized == IF isExternal THEN normalizeExternalUrl(url)
                                ELSE normalizeUrl(url, canonicalHostOf(c))
                  external2  == IF isExternal THEN SetAdd(external, url)
                                ELSE external
                  pending2   == IF /\ (~isExternal \/ c.checkExternals)
                                   /\ ~Has(visited, normalized)
                                   /\ ~Has(pending, normalized)
                                THEN SetAdd(pending, normalized)
                                ELSE pending
              IN  anchorLoop(c, anchors, i + 1, visited, pending2, external2)

\* the merge that records no redirect chain
mergeMetaNoChain(meta, finalUrl, redirectionChain, anchors, page) ==
    IF finalUrl \in DOMAIN meta THEN meta
    ELSE [k \in DOMAIN meta \cup {finalUrl} |->
            IF k = finalUrl
            THEN [redirectedFrom |-> <<>>,
                  anchors        |-> uniq(anchors),
                  hash           |-> page]
            ELSE meta[k]]

\* the merge that replaces the record of finalUrl
mergeMetaReplace(meta, finalUrl, redirectionChain, anchors, page) ==
    [k \in DOMAIN meta \cup {finalUrl} |->
        IF k = finalUrl
        THEN [redirectedFrom |-> IF k \in DOMAIN meta
                                 THEN meta[k].redirectedFrom \o redirectionChain
                                 ELSE redirectionChain,
              anchors        |-> uniq(anchors),
              hash           |-> page]
        ELSE meta[k]]

\* lines 817-828: the record of finalUrl after a visit
mergeMeta(meta, finalUrl, redirectionChain, anchors, page) ==
    IF finalUrl \in DOMAIN meta
    THEN [meta EXCEPT ![finalUrl].redirectedFrom = @ \o redirectionChain]
    ELSE [k \in DOMAIN meta \cup {finalUrl} |->
            IF k = finalUrl
            THEN [redirectedFrom |-> redirectionChain,
                  anchors        |-> uniq(anchors),
                  hash           |-> page]
            ELSE meta[k]]

-----------------------------------------------------------------------------
(* The process *)

setVars    == <<visitedUrls, pendingUrls, externalUrls, unreachableUrls>>
writerVars == <<nextSaveState, isSaving, inflight>>
normVars   == <<nIn, nHost, nOnce, nTwice, nStep>>
classVars  == <<cArgv, cUrl, cExternal, cStep>>
\* the variables of the functions checked on their own
auditVars  == <<crawlResult, aAnchors, aLists, aStep>>
reconVars  == <<rIn, rHost, rOut, rStep>>
idleVars   == <<normVars, classVars, auditVars, reconVars>>
processVars == <<phase, cfg, setVars, metaState, visitingUrl, attempts, waits,
                 navigating, slept,
                 loaded,
                 last, iterations, resumed>>

NoWrites == [f \in Files |-> <<>>]
NotSaving == [f \in Files |-> FALSE]
NoSaves == [f \in Files |-> [n |-> 0, dropped |-> {}, started |-> <<>>,
                             failed |-> FALSE, called |-> <<>>, claimed |-> <<>>]]

\* history of saveState(f, obj), line 917: content is what obj holds at the
\* call; it waits with obj in the slot (called) or belongs to the write that
\* the call starts (claimed, one entry for each write in flight)
LogCall(s, w, f, content) ==
    IF w.saving[f]
    THEN [s EXCEPT ![f].called = <<content>>]
    ELSE [s EXCEPT ![f].called = <<>>, ![f].claimed = Append(@, content)]

\* history of the callback of lines 935-938: the i-th write is over, and the
\* write that save starts is the one of the call whose object was waiting
LogFulfil(s, f, i) ==
    [s EXCEPT ![f].called = <<>>,
              ![f].claimed = RemoveAt(@, i) \o s[f].called]

\* lines 681-684: every unreachable URL goes back to pending
retryUnreachable(pending, unreachable) == AddAll(pending, unreachable)

\* lines 689-695: the visited URLs that have no record in the metadata
withoutMeta(visited, meta) == SelectSeq(visited, LAMBDA u : u \notin DOMAIN meta)

\* lines 675-707: the four Sets and the metadata of a process that reads
\* initialState and metaRead (<<>> when the file does not exist)
reconcile(c, initialState, metaRead) ==
    LET canonicalHost == canonicalHostOf(c)
        meta0         == IF c.collectMeta /\ metaRead # <<>>
                         THEN metaRead[1] ELSE EmptyMeta
        visited0      == IF initialState = <<>> THEN <<>>
                         ELSE initialState[1].visitedUrls
        pending0      == IF initialState = <<>> THEN <<c.initialUrl>>
                         ELSE initialState[1].pendingUrls
        external0     == IF initialState = <<>> THEN <<>>
                         ELSE initialState[1].externalUrls
        unreachable0  == IF initialState = <<>> THEN <<>>
                         ELSE initialState[1].unreachableUrls
        pending1      == retryUnreachable(pending0, unreachable0)
        moved         == IF c.collectMeta THEN withoutMeta(visited0, meta0)
                         ELSE <<>>
        visited1      == DeleteAll(visited0, moved)
        pending2      == AddAll(pending1, moved)
    IN  [metaState       |-> meta0,
         visitedUrls     |-> normalizeUrlSet(visited1, canonicalHost),
         pendingUrls     |-> normalizeUrlSet(pending2, canonicalHost),
         externalUrls    |-> external0,
         unreachableUrls |-> <<>>,
         loaded          |-> [visitedUrls |-> visited0, pendingUrls |-> pending0,
                              externalUrls |-> external0,
                              unreachableUrls |-> unreachable0,
                              metaKeys |-> DOMAIN meta0]]

\* lines 608-707: read the command line and the two files, reconcile
Boot(c) ==
    /\ phase = "boot"
    /\ LET r == reconcile(c, disk[stateFileOf(c)], disk[metaFileOf(c)])
       IN  /\ cfg' = c
           /\ metaState' = r.metaState
           /\ visitedUrls' = r.visitedUrls
           /\ pendingUrls' = r.pendingUrls
           /\ externalUrls' = r.externalUrls
           /\ unreachableUrls' = r.unreachableUrls
           /\ loaded' = r.loaded
    /\ phase' = "loop"
    /\ UNCHANGED <<visitingUrl, attempts, waits, navigating, slept, writerVars,
                   disk, last, iterations,
                   resumed, saves, idleVars>>

\* line 709 false: the loop ends and run returns
LoopExit ==
    /\ phase = "loop"
    /\ pendingUrls = <<>>
    /\ phase' = "done"
    /\ UNCHANGED <<cfg, setVars, metaState, visitingUrl, attempts, waits,
                   navigating, slept, writerVars,
                   disk, loaded, last, iterations, resumed, saves, idleVars>>

\* --delay, lines 597-601 and 622: the pause between two page fetches, in ms
delay == 500

\* the timer whose promise is not awaited
setTimeoutUnawaited(elapsed, ms) == elapsed

\* await setTimeout(ms) of node:timers/promises, lines 525 and 711: the time
\* the caller has awaited when it goes on
setTimeout(elapsed, ms) == elapsed + ms

\* lines 709-750: the loop test, the pause, the pop and the first call of
\* page.goto, which is in progress in phase "fetch"
Pop ==
    /\ phase = "loop"
    /\ pendingUrls # <<>>
    /\ iterations < MaxIterations
    /\ iterations' = iterations + 1
    /\ visitingUrl' = Head(pendingUrls)
    /\ attempts' = <<>>
    /\ waits' = <<>>
    /\ slept' = setTimeout(slept, delay)
    /\ navigating' = navigating + 1
    /\ phase' = "fetch"
    /\ UNCHANGED <<cfg, setVars, metaState, writerVars, disk, loaded, last,
                   resumed, saves, idleVars>>

backoffBase == 1000                    \* line 758

\* the delay doubled from one call to the next
backoffExponentTwo == <<2, 1>>

backoffExponent == <<3, 2>>            \* line 759: 1.5, as a fraction

RECURSIVE Power(_, _)
Power(b, n) == IF n = 0 THEN 1 ELSE b * Power(b, n - 1)

\* the delay retryAsPromised sleeps after the failed call number current,
\* when calls are left: backoffBase * backoffExponent ^ (current - 1)
retryDelay(current) ==
    (backoffBase * Power(backoffExponent[1], current - 1))
        \div Power(backoffExponent[2], current - 1)

\* a callback that throws on every status but 2xx
RetryableAlso404(status) == ~(status \in 200..299)

\* the callback of retryAsPromised throws on a status that is neither 2xx nor
\* 404 (line 751), and when page.goto rejected
Retryable(status) == ~(status \in 200..299) /\ status # 404

Finished(r, n, threw) ==
    [status |-> r.status, url |-> visitingUrl, calls |-> n,
     chain |-> r.chain, final |-> r.final, page |-> r.page, threw |-> threw]

\* the call of page.goto has settled, the callback threw and tries are left:
\* retryAsPromised waits and calls it again
AttemptRetry(r) ==
    /\ phase = "fetch"
    /\ Retryable(r.status)
    /\ Len(attempts) + 1 < RetryMax
    /\ attempts' = Append(attempts, r.status)
    /\ waits' = Append(waits, retryDelay(Len(attempts) + 1))
    /\ slept' = retryDelay(Len(attempts) + 1)
    /\ navigating' = (navigating - 1) + 1
    /\ UNCHANGED <<phase, cfg, setVars, metaState, visitingUrl, writerVars,
                   disk, loaded, last, iterations, resumed, saves, idleVars>>

\* the last try threw: the catch of lines 776-781
AttemptGiveUp(r) ==
    /\ phase = "fetch"
    /\ Retryable(r.status)
    /\ Len(attempts) + 1 >= RetryMax
    /\ unreachableUrls' = SetAdd(unreachableUrls, visitingUrl)
    /\ pendingUrls' = SetDelete(pendingUrls, visitingUrl)
    /\ last' = Finished(r, Len(attempts) + 1, FALSE)
    /\ attempts' = <<>>
    /\ UNCHANGED waits
    /\ slept' = 0
    /\ navigating' = navigating - 1
    /\ phase' = "loop"
    /\ UNCHANGED <<cfg, visitedUrls, externalUrls, metaState, visitingUrl,
                   writerVars, disk, loaded, iterations, resumed, saves, idleVars>>

\* a 404 is returned by the callback: lines 762-775
Attempt404(r) ==
    /\ phase = "fetch"
    /\ r.status = 404
    /\ LET visitingUrls == Append(r.chain, r.final)
       IN  /\ unreachableUrls' = AddAll(unreachableUrls, visitingUrls)
           /\ pendingUrls' = DeleteAll(pendingUrls, visitingUrls)
    /\ last' = Finished(r, Len(attempts) + 1, FALSE)
    /\ attempts' = <<>>
    /\ UNCHANGED waits
    /\ slept' = 0
    /\ navigating' = navigating - 1
    /\ phase' = "loop"
    /\ UNCHANGED <<cfg, visitedUrls, externalUrls, metaState, visitingUrl,
                   writerVars, disk, loaded, iterations, resumed, saves, idleVars>>

\* a 2xx response: lines 762-765 and 783-859
AttemptOk(r) ==
    /\ phase = "fetch"
    /\ r.status \in 200..299
    /\ LET isVisitingExternal == isExternalUrl(cfg, visitingUrl)
           visitingUrls == Append(r.chain, r.final)
           anchors  == hrefsOf(Pages[r.page], r.final)
           collect  == ~isVisitingExternal /\ cfg.collectMeta
           meta1    == IF collect
                       THEN mergeMeta(metaState, r.final, r.chain, anchors, r.page)
                       ELSE metaState
           w1       == IF collect
                       THEN saveState(Writer, metaFileOf(cfg), LiveRef, meta1)
                       ELSE Writer
           s1       == IF collect
                       THEN LogCall(saves, Writer, metaFileOf(cfg), meta1)
                       ELSE saves
           looped   == IF isVisitingExternal
                       THEN [pendingUrls |-> pendingUrls,
                             externalUrls |-> externalUrls, threw |-> FALSE]
                       ELSE anchorLoop(cfg, anchors, 1, visitedUrls,
                                       pendingUrls, externalUrls)
           visited2 == AddAll(visitedUrls, visitingUrls)
           pending2 == DeleteAll(looped.pendingUrls, visitingUrls)
       IN  /\ metaState' = meta1
           /\ externalUrls' = looped.externalUrls
           /\ IF looped.threw
              THEN /\ visitedUrls' = visitedUrls
                   /\ pendingUrls' = looped.pendingUrls
                   /\ SetWriter(w1)
                   /\ saves' = s1
                   /\ phase' = "crashed"
              ELSE /\ visitedUrls' = visited2
                   /\ pendingUrls' = pending2
                   /\ SetWriter(saveState(w1, stateFileOf(cfg), LiveRef,
                                          Snapshot(visited2, pending2,
                                                   looped.externalUrls,
                                                   unreachableUrls)))
                   /\ saves' = LogCall(s1, w1, stateFileOf(cfg),
                                       Snapshot(visited2, pending2,
                                                looped.externalUrls,
                                                unreachableUrls))
                   /\ phase' = "loop"
           /\ last' = Finished(r, Len(attempts) + 1, looped.threw)
    /\ attempts' = <<>>
    /\ UNCHANGED waits
    /\ slept' = 0
    /\ navigating' = navigating - 1
    /\ UNCHANGED <<cfg, unreachableUrls, visitingUrl, disk, loaded,
                   iterations, resumed, idleVars>>

\* the promise of the i-th unfinished fs.writeFile(f) is fulfilled: the file
\* holds what it wrote, then the callback of lines 935-938 runs
Fulfil(f, i) ==
    /\ disk' = [disk EXCEPT ![f] = <<inflight[f][i]>>]
    /\ SetWriter(save([Writer EXCEPT !.saving[f] = FALSE,
                                     !.inflight[f] = RemoveAt(@, i)],
                      f, LiveContent(f)))

WriteComplete(f) ==
    /\ \E i \in 1..Len(inflight[f]) :
          /\ Fulfil(f, i)
          /\ saves' = LogFulfil(saves, f, i)
    /\ UNCHANGED <<phase, cfg, setVars, metaState, visitingUrl, attempts, waits,
                   navigating, slept,
                   loaded, last, iterations, resumed, idleVars>>

\* the process has ended and the crawler is started again on the same
\* directory: run returned and the writes are over, or run threw, or the
\* process was stopped during the delay of line 711 (writes in flight are lost)
Restart ==
    /\ \/ phase = "done" /\ \A f \in Files : inflight[f] = <<>>
       \/ phase = "crashed"
       \/ phase = "loop"
    /\ phase' = "boot"
    /\ visitedUrls' = <<>> /\ pendingUrls' = <<>>
    /\ externalUrls' = <<>> /\ unreachableUrls' = <<>>
    /\ metaState' = EmptyMeta
    /\ visitingUrl' = EmptyStr /\ attempts' = <<>> /\ waits' = <<>>
    /\ navigating' = 0 /\ slept' = 0
    /\ nextSaveState' = NoWrites /\ isSaving' = NotSaving /\ inflight' = NoWrites
    /\ last' = NoIteration /\ loaded' = NoLoad
    /\ saves' = NoSaves
    /\ ~resumed
    /\ resumed' = TRUE
    /\ UNCHANGED <<cfg, disk, iterations, idleVars>>

\* nothing has run yet: no process, no write, no normalisation
ProcessInit ==
    /\ phase = "boot"
    /\ visitedUrls = <<>> /\ pendingUrls = <<>>
    /\ externalUrls = <<>> /\ unreachableUrls = <<>>
    /\ metaState = EmptyMeta
    /\ visitingUrl = EmptyStr /\ attempts = <<>> /\ waits = <<>>
    /\ navigating = 0 /\ slept = 0
    /\ loaded = NoLoad /\ last = NoIteration
    /\ iterations = 0 /\ resumed = FALSE

WriterInit ==
    /\ nextSaveState = NoWrites /\ isSaving = NotSaving /\ inflight = NoWrites
    /\ disk = NoWrites
    /\ saves = NoSaves

NormIdle ==
    /\ nIn = EmptyStr /\ nHost = HostOf(SeedEx) /\ nOnce = EmptyStr
    /\ nTwice = EmptyStr /\ nStep = 0

ClassIdle ==
    /\ cArgv = <<>> /\ cUrl = EmptyStr /\ cExternal = FALSE /\ cStep = 0

NoLists == [brokenUrls |-> <<>>, pendingUrls |-> <<>>, unvisitedUrls |-> <<>>]

ReconIdle ==
    /\ rIn = <<>> /\ rHost = HostOf(SeedEx) /\ rOut = <<>> /\ rStep = 0

AuditIdle ==
    /\ crawlResult = Snapshot(<<>>, <<>>, <<>>, <<>>) /\ aAnchors = <<>>
    /\ aLists = NoLists /\ aStep = 0

Init ==
    /\ cfg \in FirstConfigs
    /\ ProcessInit
    /\ WriterInit
    /\ NormIdle
    /\ ClassIdle
    /\ AuditIdle
    /\ ReconIdle

Next ==
    \/ \E c \in StartsWith(cfg, resumed) : Boot(c)
    \/ LoopExit
    \/ Pop
    \/ \E r \in Responses(visitingUrl) : AttemptRetry(r)
    \/ \E r \in Responses(visitingUrl) : AttemptGiveUp(r)
    \/ \E r \in Responses(visitingUrl) : Attempt404(r)
    \/ \E r \in Responses(visitingUrl) : AttemptOk(r)
    \/ \E f \in Files : WriteComplete(f)
    \/ Restart

Spec == Init /\ [][Next]_vars

-----------------------------------------------------------------------------
(* The writer alone: saveState called with plain values, lines 915-939 *)

MaxSaves == 3     \* calls of saveState per file

\* the write that w2 has in flight for f and w1 has not, if any
StartedBy(w1, w2, f) ==
    IF Len(w2.inflight[f]) > Len(w1.inflight[f])
    THEN <<w2.inflight[f][Len(w2.inflight[f])]>> ELSE <<>>

\* saveState(f, n), n the number of the call: every call hands over a new value
SaveStateCall(f) ==
    /\ saves[f].n < MaxSaves
    /\ LET n == saves[f].n + 1
           w == saveState(Writer, f, Value(n), LiveContent(f))
       IN  /\ SetWriter(w)
           /\ saves' = [saves EXCEPT ![f] =
                  [n       |-> n,
                   dropped |-> IF nextSaveState[f] = <<>> THEN @.dropped
                               ELSE @.dropped \cup {nextSaveState[f][1].val},
                   started |-> @.started \o StartedBy(Writer, w, f),
                   failed  |-> @.failed,
                   called  |-> LogCall(saves, Writer, f, n)[f].called,
                   claimed |-> LogCall(saves, Writer, f, n)[f].claimed]]
    /\ UNCHANGED <<processVars, disk, idleVars>>

\* a write is fulfilled, as WriteComplete, with the write it starts recorded
WriterComplete(f) ==
    /\ \E i \in 1..Len(inflight[f]) :
          /\ Fulfil(f, i)
          /\ LET w0 == [Writer EXCEPT !.saving[f] = FALSE,
                                      !.inflight[f] = RemoveAt(@, i)]
             IN  saves' = [LogFulfil(saves, f, i) EXCEPT ![f].started =
                              @ \o StartedBy(w0, save(w0, f, LiveContent(f)), f)]
    /\ UNCHANGED <<processVars, idleVars>>

\* the promise of fs.writeFile is rejected: .then(callback) of line 935 has no
\* handler for it, so isSaving[f] is never reset
WriteFail(f) ==
    /\ \E i \in 1..Len(inflight[f]) :
          /\ inflight' = [inflight EXCEPT ![f] = RemoveAt(@, i)]
          /\ saves' = [saves EXCEPT ![f].failed = TRUE,
                                    ![f].claimed = RemoveAt(@, i)]
    /\ UNCHANGED <<processVars, nextSaveState, isSaving, disk, idleVars>>

InitWriter ==
    /\ cfg \in FirstConfigs
    /\ ProcessInit
    /\ WriterInit
    /\ NormIdle
    /\ ClassIdle
    /\ AuditIdle
    /\ ReconIdle

NextWriter ==
    \/ \E f \in Files : SaveStateCall(f)
    \/ \E f \in Files : WriterComplete(f)
    \/ \E f \in Files : WriteFail(f)

SpecWriter == InitWriter /\ [][NextWriter]_vars

-----------------------------------------------------------------------------
(* The normaliser alone: normalizeUrl applied to its own result, 881-896 *)

\* the strings handed to normalizeUrl: every spelling of a parseable URL over
\* two schemes, three hosts, four ports, two paths, with and without fragment
NormUrls ==
    {u \in [kind : {"url", "raw"}, protocol : {"http:", "https:"},
            hostname : {"ex.com", "www.ex.com", "localhost"},
            port : {"", "80", "443", "8080"}, pathname : {"/", "/a"},
            hash : {"", "#frag"}] :
        u.kind = "url" => u.port # DefaultPort(u.protocol)}

\* the canonical hosts: (new URL(initialUrl)).host of some initial URL
NormHosts ==
    {[hostname |-> h, port |-> p] :
        h \in {"ex.com", "localhost"}, p \in {"", "8080"}}

NormOnce ==
    /\ nStep = 0
    /\ nOnce' = normalizeUrl(nIn, nHost)
    /\ nStep' = 1
    /\ UNCHANGED <<processVars, writerVars, disk, saves, nIn, nHost, nTwice,
                   classVars, auditVars, reconVars>>

NormTwice ==
    /\ nStep = 1
    /\ nTwice' = normalizeUrl(nOnce, nHost)
    /\ nStep' = 2
    /\ UNCHANGED <<processVars, writerVars, disk, saves, nIn, nHost, nOnce,
                   classVars, auditVars, reconVars>>

InitNorm ==
    /\ cfg \in FirstConfigs
    /\ ProcessInit
    /\ WriterInit
    /\ nIn \in NormUrls /\ nHost \in NormHosts
    /\ nOnce = EmptyStr /\ nTwice = EmptyStr /\ nStep = 0
    /\ ClassIdle
    /\ AuditIdle
    /\ ReconIdle

NextNorm == NormOnce \/ NormTwice

SpecNorm == InitNorm /\ [][NextNorm]_vars

-----------------------------------------------------------------------------
(* The classifier on its own: isExternalUrl under every command line *)

\* cli.input[0] and cli.flags as meow hands them over (575-599): the declared
\* flags onlyPath, excludePath and domainAlias, and includePath, which is not
\* declared and is present when --include-path is typed
Argv(initialUrl, domainAlias, onlyPath, includePath, excludePath) ==
    [initialUrl  |-> initialUrl,
     domainAlias |-> domainAlias,       \* <<>> when the flag is absent
     onlyPath    |-> onlyPath,
     includePath |-> includePath,
     excludePath |-> excludePath]

\* lines 634-647: the configuration run builds from the flags; flags.onlyPath
\* is read nowhere
CommandLineOf(argv) ==
    [initialUrl       |-> argv.initialUrl,
     validDomains     |-> argv.domainAlias \o <<argv.initialUrl>>,
     collectMeta      |-> FALSE,
     checkExternals   |-> FALSE,
     externalPatterns |-> argv.excludePath,
     internalPatterns |-> argv.includePath]

\* the command lines of the classifier: two initial URLs; no alias, the alias
\* https://www.ex.com, or an alias typed without its scheme
ClassArgvs ==
    {Argv(i, d, o, n, e) :
        i \in {SeedEx, Url("http:", "ex.com", "8080", "/", "")},
        d \in {<<>>, <<AliasWww>>, <<BadStr>>},
        o \in {<<>>, <<"/a">>},
        n \in {<<>>, <<"/a">>, <<"/a", "/**">>, <<"/a", "/b">>},
        e \in {<<>>, <<"/b">>, <<"/b", "/**">>}}

\* the parseable strings handed to isExternalUrl
ClassUrls ==
    {u \in [kind : {"url", "raw"}, protocol : {"http:", "https:"},
            hostname : {"ex.com", "www.ex.com", "other.com"},
            port : {"", "443", "8080"}, pathname : {"/", "/a", "/b"},
            hash : {""}] :
        u.kind = "url" => u.port # DefaultPort(u.protocol)}

Classify ==
    /\ cStep = 0
    /\ cExternal' = isExternalUrl(CommandLineOf(cArgv), cUrl)
    /\ cStep' = 1
    /\ UNCHANGED <<processVars, writerVars, disk, saves, normVars, cArgv, cUrl,
                   auditVars, reconVars>>

InitClass ==
    /\ cArgv \in ClassArgvs /\ cUrl \in ClassUrls
    /\ cExternal = FALSE /\ cStep = 0
    /\ cfg = CommandLineOf(cArgv)
    /\ ProcessInit
    /\ WriterInit
    /\ NormIdle
    /\ AuditIdle
    /\ ReconIdle

NextClass == Classify

SpecClass == InitClass /\ [][NextClass]_vars

-----------------------------------------------------------------------------
(* The report of print-broken-links.ts on one page of the metadata file *)

\* lines 42-63: the anchors of the page from position i on, sorted into the
\* three Sets; an anchor new URL() rejects is passed over
RECURSIVE reportFrom(_, _, _, _)
reportFrom(anchors, i, result, lists) ==
    IF i > Len(anchors) THEN lists
    ELSE IF ~Parseable(anchors[i]) THEN reportFrom(anchors, i + 1, result, lists)
    ELSE LET anchor == normalizeExternalUrl(anchors[i])
             lists2 ==
                 IF Has(result.pendingUrls, anchor)
                 THEN [lists EXCEPT !.pendingUrls = SetAdd(@, anchor)]
                 ELSE IF Has(result.unreachableUrls, anchor)
                 THEN [lists EXCEPT !.brokenUrls = SetAdd(@, anchor)]
                 ELSE IF ~Has(result.visitedUrls, anchor)
                 THEN [lists EXCEPT !.unvisitedUrls = SetAdd(@, anchor)]
                 ELSE lists
         IN  reportFrom(anchors, i + 1, result, lists2)

\* the URLs of the state files of the report, in the order of the file
ReportUrls ==
    <<SeedEx, HttpsUrl("ex.com", "/a"), HttpsUrl("ex.com", "/b"),
      HttpsUrl("other.com", "/x")>>

\* the arrays a state file may hold: every URL in one of them or in none
CrawlResults ==
    {Snapshot(SelectSeq(ReportUrls, LAMBDA u : \E i \in 1..Len(ReportUrls) :
                                         ReportUrls[i] = u /\ m[i] = "visited"),
              SelectSeq(ReportUrls, LAMBDA u : \E i \in 1..Len(ReportUrls) :
                                         ReportUrls[i] = u /\ m[i] = "pending"),
              SelectSeq(ReportUrls, LAMBDA u : \E i \in 1..Len(ReportUrls) :
                                         ReportUrls[i] = u /\ m[i] = "external"),
              SelectSeq(ReportUrls, LAMBDA u : \E i \in 1..Len(ReportUrls) :
                                         ReportUrls[i] = u /\ m[i] = "unreachable")) :
        m \in [1..Len(ReportUrls) ->
                  {"none", "visited", "pending", "external", "unreachable"}]}

\* meta.anchors of a record: what line 824 of index.js stored for a document
\* served at https://ex.com/
StoredAnchors == {uniq(hrefsOf(Pages[p], SeedEx)) : p \in 1..Len(Pages)}

Report ==
    /\ aStep = 0
    /\ aLists' = reportFrom(aAnchors, 1, crawlResult, NoLists)
    /\ aStep' = 1
    /\ UNCHANGED <<processVars, writerVars, disk, saves, normVars, classVars,
                   crawlResult, aAnchors, reconVars>>

InitReport ==
    /\ crawlResult \in CrawlResults /\ aAnchors \in StoredAnchors
    /\ aLists = NoLists /\ aStep = 0
    /\ cfg \in FirstConfigs
    /\ ProcessInit
    /\ WriterInit
    /\ NormIdle
    /\ ClassIdle
    /\ ReconIdle

NextReport == Report

SpecReport == InitReport /\ [][NextReport]_vars

-----------------------------------------------------------------------------
(* normalizeUrlSet on its own: a Set read from a state file, lines 705-706 *)

\* the strings a state file may hold in visitedUrls or pendingUrls: what
\* response.url() and request.url() reported, what normalizeUrl returned for
\* the canonical host of the run that wrote the file, the seed as typed
ReconUrls ==
    {u \in [kind : {"url"}, protocol : {"http:", "https:"},
            hostname : {"ex.com", "www.ex.com", "localhost"},
            port : {"", "8080"}, pathname : {"/a"}, hash : {"", "#frag"}] : TRUE}
    \cup {Raw(SeedEx)}

\* the Sets of one or two of them
ReconSets ==
    {<<u>> : u \in ReconUrls}
    \cup UNION {{<<u, v>> : v \in ReconUrls \ {u}} : u \in ReconUrls}

Reconcile ==
    /\ rStep = 0
    /\ rOut' = normalizeUrlSet(rIn, rHost)
    /\ rStep' = 1
    /\ UNCHANGED <<processVars, writerVars, disk, saves, normVars, classVars,
                   auditVars, rIn, rHost>>

InitRecon ==
    /\ rIn \in ReconSets /\ rHost \in NormHosts
    /\ rOut = <<>> /\ rStep = 0
    /\ cfg \in FirstConfigs
    /\ ProcessInit
    /\ WriterInit
    /\ NormIdle
    /\ ClassIdle
    /\ AuditIdle

NextRecon == Reconcile

SpecRecon == InitRecon /\ [][NextRecon]_vars

-----------------------------------------------------------------------------
(* The startup of run on a state file left by an earlier run, lines 675-707 *)

\* what an earlier run may have left in visitedUrls, pendingUrls and
\* unreachableUrls: URLs as the transport reported them (for any alias of the
\* site, the development host included) and URLs normalizeUrl returned
ResumeUrls ==
    {HttpsUrl("ex.com", "/a"),
     Url("https:", "www.ex.com", "", "/a", "#frag"),
     Url("http:", "localhost", "", "/a", ""),
     HttpsUrl("ex.com", "/b")}

\* the Sets of at most two of them, as JSON arrays
ResumeLists ==
    {<<>>} \cup {<<u>> : u \in ResumeUrls}
    \cup UNION {{<<u, v>> : v \in ResumeUrls \ {u}} : u \in ResumeUrls}

ResumeStates ==
    {Snapshot(v, p, e, u) :
        v \in ResumeLists, p \in ResumeLists,
        e \in {<<>>, <<HttpsUrl("other.com", "/x")>>},
        u \in {l \in ResumeLists : Len(l) <= 1}}

\* the metadata files: none, or one with the record of a single page
ResumeMetas ==
    {<<>>} \cup
    {<<[k \in {url} |-> [redirectedFrom |-> <<>>, anchors |-> <<>>, hash |-> 1]]>> :
        url \in {HttpsUrl("ex.com", "/a"), HttpsUrl("ex.com", "/b")}}

InitResume ==
    /\ cfg \in FirstConfigs
    /\ ProcessInit
    /\ nextSaveState = NoWrites /\ isSaving = NotSaving /\ inflight = NoWrites
    /\ saves = NoSaves
    /\ \E st \in ResumeStates, m \in ResumeMetas :
          disk = [f \in Files |-> IF f = stateFileOf(cfg) THEN <<st>>
                                  ELSE IF f = metaFileOf(cfg) THEN m ELSE <<>>]
    /\ NormIdle
    /\ ClassIdle
    /\ AuditIdle
    /\ ReconIdle

NextResume == \E c \in StartsWith(cfg, resumed) : Boot(c)

SpecResume == InitResume /\ [][NextResume]_vars

-----------------------------------------------------------------------------
(* The properties *)

\* run is between two iterations: reconciled, and no URL is being fetched
BetweenIterations == phase = "loop"

\* the number of the four sets that hold url
Memberships(url) ==
    Cardinality({i \in 1..4 :
        Has(<<pendingUrls, visitedUrls, unreachableUrls, externalUrls>>[i], url)})

Known == Range(pendingUrls) \cup Range(visitedUrls)
         \cup Range(unreachableUrls) \cup Range(externalUrls)

\* C1: frontier partition.  Between two iterations of the crawl loop every
\* known URL is in exactly one of Pending, Visited, Unreachable and External.
C1_FrontierPartition ==
    BetweenIterations => \A url \in Known : Memberships(url) = 1

\* C1, default flags: a page links to a URL that was marked unreachable
C1_UnreachableAndPending ==
    /\ BetweenIterations
    /\ ~cfg.checkExternals /\ ~cfg.collectMeta /\ ~resumed
    /\ \E url \in Range(unreachableUrls) : Has(pendingUrls, url)

\* C2: for every file, at most one write is in flight at any time, and a write
\* is in flight only while the file's slot isSaving is taken.
C2_OneWriteInFlight ==
    \A f \in Files : Len(inflight[f]) <= 1 /\ (inflight[f] # <<>> => isSaving[f])

\* C2: saveState was called again while a write of the file was in flight
C2_CallDuringWrite ==
    \E f \in Files :
        /\ Len(inflight[f]) = 1
        /\ nextSaveState[f] # <<>>
        /\ saves[f].n >= 2

\* every write of f that started has completed
WritesCompleted(f) == inflight[f] = <<>> /\ ~saves[f].failed

\* C3: once every started write of a file has completed, the file holds the
\* argument of the last saveState call, the slot of the next state is empty and
\* no write is in flight; a value that was overwritten in the slot is never
\* written.
C3_Coalescing ==
    \A f \in Files :
        /\ saves[f].n > 0 /\ WritesCompleted(f) =>
              /\ disk[f] = <<saves[f].n>>
              /\ nextSaveState[f] = <<>>
              /\ ~isSaving[f]
        /\ saves[f].dropped \cap Range(saves[f].started) = {}

\* C3: calls came while a write was in flight, one of their values was
\* overwritten in the slot, and every write has completed
C3_SettledAfterOverwrite ==
    \E f \in Files :
        /\ saves[f].dropped # {}
        /\ Len(saves[f].started) >= 2
        /\ WritesCompleted(f)

\* C4: normalizeUrl is idempotent.  For every parseable URL u and canonical
\* host h, normalizeUrl(normalizeUrl(u, h), h) = normalizeUrl(u, h).
C4_Idempotent == nStep = 2 => nTwice = nOnce

\* C4: an http URL on localhost, normalised twice for another canonical host
C4_LocalhostTwice ==
    /\ nStep = 2
    /\ nIn = Url("http:", "localhost", "", "/a", "")
    /\ nHost = [hostname |-> "ex.com", port |-> ""]
    /\ nOnce = Url("http:", "ex.com", "", "/a", "")
    /\ nTwice = Url("https:", "ex.com", "", "/a", "")

\* the iteration that has just ended answered its first call with a 404
EndedOn404 == BetweenIterations /\ last.status = 404 /\ last.calls = 1

Transient(status) == status = 0 \/ (status >= 300 /\ status # 404)

\* the iteration that ended last made its last call in vain
GaveUp == last.calls > 0 /\ Transient(last.status)

\* C6: bounded retry.  At most 3 calls of page.goto are made per popped URL;
\* another call follows exactly when the previous one failed transiently and
\* fewer than 3 were made; after 3 failures the URL is in Unreachable and no
\* longer in Pending, and the loop goes on.
C6_BoundedRetry ==
    /\ phase = "fetch" =>
          /\ Len(attempts) < 3
          /\ \A i \in 1..Len(attempts) : Transient(attempts[i])
    /\ last.calls <= 3
    /\ GaveUp => last.calls = 3 /\ phase \in {"loop", "fetch", "done"}
    /\ GaveUp /\ BetweenIterations =>
          /\ Has(unreachableUrls, last.url)
          /\ ~Has(pendingUrls, last.url)

\* C6: three calls failed, and the next pending URL has been taken
C6_NextAfterGiveUp ==
    /\ GaveUp /\ last.calls = 3
    /\ phase = "fetch"
    /\ visitingUrl # last.url
    /\ Has(unreachableUrls, last.url)

\* startup reconciliation has just finished
Reconciled == phase = "loop" /\ last = NoIteration

\* the canonical form of url for the running process
Canonical(url) == normalizeUrl(url, canonicalHostOf(cfg))

\* the URLs loaded as visited that have no record in the loaded metadata
LoadedWithoutMeta ==
    {url \in Range(loaded.visitedUrls) : url \notin loaded.metaKeys}

LastAnchors == hrefsOf(Pages[last.page], last.final)

\* the last iteration fetched an internal page that has a malformed anchor
FetchedMalformed ==
    /\ last.status \in 200..299
    /\ ~isExternalUrl(cfg, last.url)
    /\ \E i \in 1..Len(LastAnchors) : LastAnchors[i].kind = "bad"

\* the anchor took its place: an external one is in External, an internal one
\* is known in its canonical form
Classified(url) ==
    IF isExternalUrl(cfg, url) THEN Has(externalUrls, url)
    ELSE Has(pendingUrls, Canonical(url)) \/ Has(visitedUrls, Canonical(url))

\* C8: malformed anchors are skipped locally.  When a fetched page has an
\* anchor that does not parse, the anchor enters none of the four sets, the
\* other anchors of the page are classified, the page ends the iteration in
\* Visited and the loop goes on.
C8_MalformedSkipped ==
    FetchedMalformed =>
        /\ phase # "crashed"
        /\ Has(visitedUrls, last.final)
        /\ \A i \in 1..Len(LastAnchors) :
              LET url == LastAnchors[i] IN
              IF Parseable(url) THEN Classified(url)
              ELSE url.kind = "bad" => url \notin Known

\* C8: run threw on the malformed anchor; the page was not marked visited and
\* the anchor after the malformed one was not looked at
C8_ThrewOnMalformed ==
    /\ FetchedMalformed
    /\ phase = "crashed"
    /\ last.url = HttpsUrl("ex.com", "/a") /\ last.final = last.url
    /\ Has(pendingUrls, last.url)
    /\ ~Has(visitedUrls, last.url)

\* C9: unreachable URLs are retried only at process start.  While a process
\* is in its crawl loop no URL that is in Unreachable is added to Pending.
C9_NoRequeue ==
    [][phase # "boot" /\ phase' # "boot" =>
          \A url \in Range(unreachableUrls) :
              Has(pendingUrls', url) => Has(pendingUrls, url)]_vars

\* C9: in the first process, a page linked to a URL that is in Unreachable, and
\* that URL is the next one to be fetched
C9_RequeuedNext ==
    /\ BetweenIterations /\ ~resumed
    /\ last.status \in 200..299
    /\ pendingUrls # <<>>
    /\ Has(unreachableUrls, Head(pendingUrls))

\* a step that ends an iteration on an internal page fetched with success
IterationOk ==
    /\ phase = "fetch" /\ phase' = "loop"
    /\ last'.status \in 200..299
    /\ ~isExternalUrl(cfg, visitingUrl)

\* the anchors of the page that step fetched, those without href left out
StepAnchors ==
    LET hrefs == hrefsOf(Pages[last'.page], last'.final)
    IN  {hrefs[i] : i \in 1..Len(hrefs)} \ {EmptyStr}

InternalAnchors == {url \in StepAnchors : ~isExternalUrl(cfg, url)}
ExternalAnchors == {url \in StepAnchors : isExternalUrl(cfg, url)}

\* the canonical form as the specification words it: scheme https, the
\* canonical host, no fragment
CanonicalForm(url) ==
    [ParseUrl(url) EXCEPT !.protocol = "https:",
                          !.hostname = canonicalHostOf(cfg).hostname,
                          !.hash = ""]

WithoutFragment(url) == [ParseUrl(url) EXCEPT !.hash = ""]

\* the first iteration of a crawl of https://ex.com/ whose page has the anchors
\* https://ex.com/a, https://other.com/x and /b#frag
ScenarioStep ==
    /\ IterationOk
    /\ visitedUrls = <<>> /\ pendingUrls = <<SeedEx>> /\ externalUrls = <<>>
    /\ last'.final = SeedEx /\ last'.chain = <<>> /\ last'.page = 2

ScenarioResult ==
    /\ visitedUrls' = <<SeedEx>>
    /\ pendingUrls' = <<HttpsUrl("ex.com", "/a"), HttpsUrl("ex.com", "/b")>>
    /\ externalUrls' = <<HttpsUrl("other.com", "/x")>>

\* the URLs of the page the step fetched: the redirect chain and the final URL
StepVisited == Range(last'.chain) \cup {last'.final}

RedirectStep(A, B) ==
    /\ IterationOk /\ cfg.collectMeta
    /\ last'.chain = <<A>> /\ last'.final = B /\ A # B

\* the URLs the site redirects from and to
RedirectUrls == {SeedEx, SeedDash} \cup Range(pendingUrls) \cup RedirectPool

AliasedOrigin(urlStr) == OriginOf(AliasHttp(ParseUrl(urlStr)))

\* the valid domains of the command line: the seed URL and the alias URLs
ConfiguredDomains == {cArgv.initialUrl} \cup Range(cArgv.domainAlias)

\* the include patterns of the command line, typed as --only-path or as
\* --include-path
ConfiguredIncludes == Range(cArgv.onlyPath) \cup Range(cArgv.includePath)

\* C12: for every parseable anchor URL and every configuration the classifier
\* returns external if and only if the anchor's origin, http and https taken
\* as one scheme, is the origin of none of the configured valid domains, or
\* its path matches at least one exclude pattern, or at least one include
\* pattern is configured and the path does not match all of them.
C12_Classification ==
    cStep = 1 =>
        (cExternal <=>
            \/ \A d \in ConfiguredDomains :
                   Parseable(d) => AliasedOrigin(d) # AliasedOrigin(cUrl)
            \/ \E e \in Range(cArgv.excludePath) : Matches(ParseUrl(cUrl).pathname, e)
            \/ /\ ConfiguredIncludes # {}
               /\ \E n \in ConfiguredIncludes : ~Matches(ParseUrl(cUrl).pathname, n))

\* C12: with --only-path /a alone, https://ex.com/b is classified internal
C12_OnlyPathIgnored ==
    /\ cStep = 1
    /\ cArgv = Argv(SeedEx, <<>>, <<"/a">>, <<>>, <<>>)
    /\ cUrl = HttpsUrl("ex.com", "/b")
    /\ ~cExternal

\* no element occurs twice in the sequence
DuplicateFree(seq) == \A i, j \in 1..Len(seq) : seq[i] = seq[j] => i = j

C14_FirstWriteWins ==
    [][phase' # "boot" =>
          \A k \in DOMAIN metaState :
              /\ k \in DOMAIN metaState'
              /\ metaState'[k].hash = metaState[k].hash
              /\ metaState'[k].anchors = metaState[k].anchors]_vars

\* C14: a later visit has resolved to a URL recorded by an earlier process and
\* found another document there; the record keeps the first one
C14_SecondVisitKept ==
    /\ BetweenIterations /\ cfg.collectMeta
    /\ last.status = 200
    /\ last.final \in loaded.metaKeys
    /\ last.final \in DOMAIN metaState
    /\ metaState[last.final].hash # last.page
    /\ metaState[last.final].anchors # uniq(LastAnchors)

\* two stored anchors of the crawled site with the same canonical form
SameCanonical(a, b) ==
    /\ Parseable(a) /\ Parseable(b)
    /\ ~isExternalUrl(cfg, a) /\ ~isExternalUrl(cfg, b)
    /\ normalizeUrl(a, canonicalHostOf(cfg)) = normalizeUrl(b, canonicalHostOf(cfg))

\* C15: in every metadata record no two entries of anchors normalize to the
\* same canonical URL.
C15_AnchorsCanonicalUnique ==
    \A k \in DOMAIN metaState :
        \A i, j \in 1..Len(metaState[k].anchors) :
            SameCanonical(metaState[k].anchors[i], metaState[k].anchors[j]) => i = j

\* C15: the record of https://ex.com/b holds http://www.ex.com/a#frag and
\* https://ex.com/a
C15_BothSpellingsStored ==
    /\ BetweenIterations /\ cfg.collectMeta /\ ~resumed
    /\ HttpsUrl("ex.com", "/b") \in DOMAIN metaState
    /\ Has(metaState[HttpsUrl("ex.com", "/b")].anchors,
           Url("http:", "www.ex.com", "", "/a", "#frag"))
    /\ Has(metaState[HttpsUrl("ex.com", "/b")].anchors, HttpsUrl("ex.com", "/a"))

\* a step that ends an iteration whose popped URL is classified external
ExternalIteration ==
    /\ phase = "fetch" /\ phase' # "fetch"
    /\ isExternalUrl(cfg, visitingUrl)

\* the URLs of the fetch that ends in this step
StepFetched == {visitingUrl, last'.final} \cup Range(last'.chain)

\* C16: in an iteration whose popped URL is classified external no anchors are
\* extracted: Pending and External gain no URL, no metadata record is created
\* or changed, and the only change of the frontier is that the popped URL,
\* with the redirect chain and final URL of its fetch, moves to Visited or to
\* Unreachable.
C16_ExternalLivenessOnly ==
    [][ExternalIteration =>
          /\ Range(pendingUrls') \subseteq Range(pendingUrls)
          /\ externalUrls' = externalUrls
          /\ metaState' = metaState
          /\ Range(pendingUrls) \ Range(pendingUrls') \subseteq StepFetched
          /\ Range(visitedUrls) \subseteq Range(visitedUrls')
          /\ Range(unreachableUrls) \subseteq Range(unreachableUrls')
          /\ Range(visitedUrls') \ Range(visitedUrls) \subseteq StepFetched
          /\ Range(unreachableUrls') \ Range(unreachableUrls) \subseteq StepFetched
          /\ ~Has(pendingUrls', visitingUrl)
          /\ Has(visitedUrls', visitingUrl) \/ Has(unreachableUrls', visitingUrl)]_vars

\* C16 without the move of the popped URL: what the iteration leaves alone
C16_NothingElseChanges ==
    [][ExternalIteration =>
          /\ Range(pendingUrls') \subseteq Range(pendingUrls)
          /\ externalUrls' = externalUrls
          /\ metaState' = metaState
          /\ Range(pendingUrls) \ Range(pendingUrls') \subseteq StepFetched
          /\ Range(visitedUrls) \subseteq Range(visitedUrls')
          /\ Range(unreachableUrls) \subseteq Range(unreachableUrls')
          /\ Range(visitedUrls') \ Range(visitedUrls) \subseteq StepFetched
          /\ Range(unreachableUrls') \ Range(unreachableUrls) \subseteq StepFetched]_vars

\* C16: under check-externals https://other.com/x was popped and fetched with
\* success, and it is still in Pending and in neither Visited nor Unreachable
C16_ExternalStillPending ==
    /\ BetweenIterations /\ cfg.checkExternals
    /\ last.url = HttpsUrl("other.com", "/x")
    /\ isExternalUrl(cfg, last.url)
    /\ last.status = 200
    /\ Has(pendingUrls, last.url)
    /\ ~Has(visitedUrls, last.url) /\ ~Has(unreachableUrls, last.url)

\* urlSet holds url with its scheme, host and path as they are
KeptIn(url, urlSet) ==
    \E u \in Range(urlSet) :
        /\ OriginOf(u) = OriginOf(ParseUrl(url))
        /\ u.pathname = ParseUrl(url).pathname

\* run has read the files and reconciled the sets in this step
BootStep == phase = "boot" /\ phase' = "loop"

ReportedAnchors ==
    {normalizeExternalUrl(aAnchors[i]) :
        i \in {j \in 1..Len(aAnchors) : Parseable(aAnchors[j])}}

\* C18: every parseable anchor of a page is listed as broken if and only if
\* it is in Unreachable, as pending if and only if it is in Pending, and as not
\* yet classified if and only if it is in none of Visited, Pending,
\* Unreachable and External; no anchor is in two of the three lists.
C18_AuditClassification ==
    aStep = 1 =>
        \A anchor \in ReportedAnchors :
            /\ Has(aLists.brokenUrls, anchor) <=> Has(crawlResult.unreachableUrls, anchor)
            /\ Has(aLists.pendingUrls, anchor) <=> Has(crawlResult.pendingUrls, anchor)
            /\ Has(aLists.unvisitedUrls, anchor) <=>
                  /\ ~Has(crawlResult.visitedUrls, anchor)
                  /\ ~Has(crawlResult.pendingUrls, anchor)
                  /\ ~Has(crawlResult.unreachableUrls, anchor)
                  /\ ~Has(crawlResult.externalUrls, anchor)
            /\ Cardinality({l \in {"brokenUrls", "pendingUrls", "unvisitedUrls"} :
                               Has(aLists[l], anchor)}) <= 1

\* C18: https://other.com/x is in External and is listed as not yet classified
C18_ExternalListedUnvisited ==
    /\ aStep = 1
    /\ Has(aAnchors, HttpsUrl("other.com", "/x"))
    /\ crawlResult.externalUrls = <<HttpsUrl("other.com", "/x")>>
    /\ Has(aLists.unvisitedUrls, HttpsUrl("other.com", "/x"))

\* the crawl loop has ended and no write is running or waiting
EndedAndWritten ==
    /\ phase = "done" /\ pendingUrls = <<>>
    /\ \A f \in Files :
          inflight[f] = <<>> /\ nextSaveState[f] = <<>> /\ ~isSaving[f]

\* C19: once the crawl loop has ended with Pending empty and every started
\* write has completed, the state file holds the four sets as they are in
\* memory, also when the last iterations ended with a failed fetch.
C19_FinalStatePersisted ==
    EndedAndWritten =>
        disk[stateFileOf(cfg)] =
            <<Snapshot(visitedUrls, pendingUrls, externalUrls, unreachableUrls)>>

\* C19: the only fetch of the run failed; the seed is in Unreachable and no
\* state file was written
C19_FailedFetchNotWritten ==
    /\ EndedAndWritten /\ ~resumed
    /\ unreachableUrls = <<SeedEx>>
    /\ disk[stateFileOf(cfg)] = <<>>

\* C20: within one iteration the waits between navigation attempts 1 and 2
\* and between attempts 2 and 3 are 1000 ms and 1500 ms, and no wait follows
\* the third attempt.
C20_Backoff ==
    /\ waits \in {<<>>, <<1000>>, <<1000, 1500>>}
    /\ phase = "fetch" => Len(waits) = Len(attempts)
    /\ (phase = "loop" /\ last.calls > 0) => Len(waits) = last.calls - 1

\* C20: the third attempt failed too and the iteration has ended after the
\* waits of 1000 ms and 1500 ms
C20_ThreeAttemptsTwoWaits ==
    /\ BetweenIterations
    /\ last.calls = 3 /\ Retryable(last.status)
    /\ waits = <<1000, 1500>>

\* a step that ends an iteration whose fetch succeeded
FetchOkStep ==
    /\ phase = "fetch" /\ phase' = "loop"
    /\ last'.status \in 200..299

\* C21: on a successful fetch, whatever the transport reports, at the end of
\* the iteration the popped URL, every URL of the redirect chain and the final
\* URL are in Visited and none of them is in Pending.
C21_FetchedAllVisited ==
    [][FetchOkStep =>
          \A url \in StepFetched :
              Has(visitedUrls', url) /\ ~Has(pendingUrls', url)]_vars

\* C21: the navigation to https://ex.com/ was replaced by the page (no redirect
\* chain, final URL https://ex.com/b); the seed is still in Pending and not in
\* Visited
C21_PoppedNotVisited ==
    /\ BetweenIterations
    /\ last.status = 200 /\ last.url = SeedEx
    /\ last.chain = <<>> /\ last.final = HttpsUrl("ex.com", "/b")
    /\ Has(visitedUrls, last.final)
    /\ ~Has(visitedUrls, SeedEx) /\ Has(pendingUrls, SeedEx)

\* a step that ends an iteration whose fetch failed: the last try threw, or
\* the response is a 404
FetchFailedStep ==
    /\ phase = "fetch" /\ phase' # "fetch"
    /\ ~(last'.status \in 200..299)

IterationEnds == phase = "fetch" /\ phase' = "loop"

\* the step that pops the next URL, an iteration of this run having ended
PopsNext == phase = "loop" /\ phase' = "fetch" /\ last.status # -1

\* C23, as far as a finite run decides it: every iteration removes the popped
\* URL from Pending, and the same URL is never popped in two consecutive
\* iterations (both are needed for the loop to end on a finite site).
C23_PoppedLeavesPending ==
    [][/\ IterationEnds => ~Has(pendingUrls', visitingUrl)
       /\ PopsNext => visitingUrl' # last.url]_vars

\* C23: https://ex.com/ was fetched with success and is being fetched again in
\* the iteration that follows
C23_PoppedAgain ==
    /\ phase = "fetch" /\ ~resumed
    /\ visitingUrl = SeedEx
    /\ last.url = SeedEx /\ last.status = 200
    /\ iterations = 2

\* the URLs Pending gains in the step
Enqueued == Range(pendingUrls') \ Range(pendingUrls)

\* the parseable anchors of the page fetched in the step
ParsedAnchors == {url \in StepAnchors : Parseable(url)}

\* C24: during the crawl loop Pending gains only normalized forms of anchors
\* of the fetched page that were in neither Visited nor Pending, so a URL in
\* Visited never re-enters Pending; and without check-externals no anchor
\* classified external is added to Pending.
C24_EnqueueRule ==
    [][phase = "fetch" =>
          /\ Enqueued \cap Range(visitedUrls) = {}
          /\ \A url \in Enqueued :
                \E a \in ParsedAnchors :
                    \/ ~isExternalUrl(cfg, a)
                       /\ url = normalizeUrl(a, canonicalHostOf(cfg))
                    \/ isExternalUrl(cfg, a) /\ cfg.checkExternals
                       /\ url = normalizeExternalUrl(a)
          /\ ~cfg.checkExternals =>
                \A a \in ParsedAnchors :
                    isExternalUrl(cfg, a) =>
                        /\ a \notin Enqueued
                        /\ normalizeExternalUrl(a) \notin Enqueued]_vars

\* C24: the page at https://ex.com/b links to the visited https://ex.com/,
\* which is not in Pending after the iteration
C24_VisitedNotEnqueued ==
    /\ BetweenIterations /\ ~resumed
    /\ last.status = 200 /\ last.url = HttpsUrl("ex.com", "/b")
    /\ last.final = last.url /\ last.page = 4
    /\ Has(visitedUrls, SeedEx) /\ ~Has(pendingUrls, SeedEx)

C27_CanonicalMembership ==
    BetweenIterations =>
        \A url \in Range(visitedUrls) \cup Range(pendingUrls)
                   \cup Range(unreachableUrls) :
            ~isExternalUrl(cfg, url) => Canonical(url) = url

\* C27: the final URL https://www.ex.com/a of a redirect is in Visited as the
\* transport reported it
C27_RawFinalVisited ==
    /\ BetweenIterations /\ ~resumed
    /\ last.status = 200 /\ last.final = HttpsUrl("www.ex.com", "/a")
    /\ ~isExternalUrl(cfg, last.final)
    /\ Has(visitedUrls, last.final)
    /\ Canonical(last.final) = HttpsUrl("ex.com", "/a")


\* C28: every write in flight holds the frontier, or the metadata map, exactly as
\* it was at the saveState call that the write belongs to: what the loop changes
\* between that call and the start of the deferred write is not in the write
C28_WritesAreSnapshots ==
    \A f \in Files :
       /\ Len(saves[f].claimed) = Len(inflight[f])
       /\ \A i \in 1..Len(inflight[f]) : inflight[f][i] = saves[f].claimed[i]

\* a write of the state file in flight lists an unreachable URL that the loop
\* recorded after the saveState call of that write
C28_LaterFailureWritten ==
    \E c \in Configs :
       LET f == stateFileOf(c)
       IN  \E i \in 1..Len(inflight[f]) :
              \E u \in Range(inflight[f][i].unreachableUrls) :
                 ~Has(saves[f].claimed[i].unreachableUrls, u)


\* C29: no two calls of page.goto are in progress at the same time, and when
\* the first call for a popped URL is in progress the loop has awaited the
\* configured delay since the fetch before it was over
C29_Politeness ==
    /\ navigating \in {0, 1}
    /\ navigating = 1 <=> phase = "fetch"
    /\ (phase = "fetch" /\ attempts = <<>>) => slept >= delay

\* the first navigation to the URL popped after an earlier fetch is in progress
C29_NextFetchBegun ==
    /\ phase = "fetch" /\ attempts = <<>>
    /\ navigating = 1
    /\ last # NoIteration
    /\ visitingUrl # last.url
    /\ slept = delay


\* C30: a write that fails clears the flag isSaving of its file: when no write
\* of a file is in flight the flag is down, so the next saveState call for the
\* file starts a write and no object is left waiting in the slot
C30_FailedWriteClearsFlag ==
    \A f \in Files :
       inflight[f] = <<>> => ~isSaving[f] /\ nextSaveState[f] = <<>>

\* a write of the file failed, and the object of a later saveState call waits
\* in the slot with no write in flight and the flag up
C30_WedgedAfterFailure ==
    \E f \in Files :
       /\ saves[f].failed
       /\ inflight[f] = <<>>
       /\ isSaving[f]
       /\ nextSaveState[f] # <<>>
       /\ nextSaveState[f][1].val = saves[f].n
       /\ disk[f] # <<saves[f].n>>


\* C31: in a run that started with no state file, between two iterations no
\* URL is both in Visited and in Pending: what an iteration adds to Visited it
\* removes from Pending, also when the fetched page links to itself, to its
\* final URL or to a URL of its redirect chain
C31_VisitedNotPending ==
    (~resumed /\ BetweenIterations) =>
       Range(visitedUrls) \cap Range(pendingUrls) = {}

\* the page fetched last, in a first run and after a redirect, has an anchor
\* whose normalized form is the final URL or a URL of the redirect chain
C31_SelfLinkFetched ==
    /\ ~resumed /\ BetweenIterations
    /\ last.status \in 200..299
    /\ last.chain # <<>>
    /\ ~isExternalUrl(cfg, last.url)
    /\ \E i \in 1..Len(LastAnchors) :
          /\ LastAnchors[i] # EmptyStr
          /\ Parseable(LastAnchors[i])
          /\ ~isExternalUrl(cfg, LastAnchors[i])
          /\ Canonical(LastAnchors[i]) \in
                {last.url, last.final} \cup Range(last.chain)
    /\ \A u \in {last.url, last.final} \cup Range(last.chain) :
          Has(visitedUrls, u)


\* a first run that collects metadata has ended with Pending and Unreachable
\* empty, and every write has completed
FinishedCrawl ==
    /\ ~resumed
    /\ cfg.collectMeta
    /\ EndedAndWritten
    /\ unreachableUrls = <<>>

\* what a process started now with the command line c reads and reconciles
Resumed(c) == reconcile(c, disk[stateFileOf(c)], disk[metaFileOf(c)])

LoadedUrls ==
    Range(loaded.visitedUrls) \cup Range(loaded.pendingUrls)
       \cup Range(loaded.unreachableUrls)

=============================================================================
